---- MODULE Spec2Model ----
(***************************************************************************)
(* Pause segmentation of a GPS track (BreakDetection.py).                  *)
(*                                                                         *)
(* A Fix is a record [lat, t].  All Fixes of the model lie on one          *)
(* meridian: lat is the arc from the equator counted in half metres, so    *)
(* the haversine distance of two Fixes is exactly the absolute difference  *)
(* of their lat fields, in half metres.  Timestamps are whole seconds.     *)
(* Pace and density are exact fractions [num, den]; "no data" (None) is    *)
(* the record NoData.  Indices are 0-based as in the source: P(k) is       *)
(* points[k].                                                              *)
(***************************************************************************)
EXTENDS Integers, Sequences, FiniteSets, TLC

VARIABLES points, cfg, pc, i, in_pause, pause_start, pause_start_index,
          pause_start_distance, cumulative_distances, pauses, result,
          queries, segment, average_pace

vars == <<points, cfg, pc, i, in_pause, pause_start, pause_start_index,
          pause_start_distance, cumulative_distances, pauses, result,
          queries, segment, average_pace>>

(* Longest track drawn by Init. *)
MaxLen == 5

(* ------------------------------------------------------------------ *)
(* Values                                                               *)
(* ------------------------------------------------------------------ *)

(* A length given in metres, in the half-metre unit of lat. *)
HalfMetres(m) == 2 * m

(* Python's None for an index or a distance, and for a Fix. *)
None == -1
NoFix == [lat |-> 0, t |-> -1]

(* Exact fractions, and the "no data" result of a query. *)
NoData == [none |-> TRUE, num |-> 0, den |-> 1]
Val(n, d) == [none |-> FALSE, num |-> n, den |-> d]
Less(a, b) == a.num * b.den < b.num * a.den
SameValue(a, b) == a.num * b.den = b.num * a.den

Abs(x) == IF x < 0 THEN -x ELSE x

SetMax(S) == CHOOSE m \in S : \A x \in S : x <= m

(* ------------------------------------------------------------------ *)
(* Configuration                                                        *)
(* ------------------------------------------------------------------ *)

DefaultConfig ==
    [threshold_start |-> 30, threshold_end |-> 30, time_window |-> 45,
     pace_threshold |-> 15, nb_points_pace |-> 10,
     density_threshold |-> 1, density_window |-> 30,
     time_window_end |-> 30, pace_threshold_end |-> 20,
     nb_points_pace_end |-> 7]

(* A caller's configuration with short windows and a two-point pace. *)
ShortConfig ==
    [threshold_start |-> 40, threshold_end |-> 20, time_window |-> 1,
     pace_threshold |-> 10, nb_points_pace |-> 2,
     density_threshold |-> 2, density_window |-> 50,
     time_window_end |-> 1, pace_threshold_end |-> 25,
     nb_points_pace_end |-> 1]

Configs == {DefaultConfig, ShortConfig}

(* ------------------------------------------------------------------ *)
(* Geodesic distance                                                    *)
(* ------------------------------------------------------------------ *)

(* On one meridian dlon = 0, a = sin(dlat/2)^2 and c = |dlat|, so the  *)
(* result R * c is the arc between the two latitudes.                   *)
haversine(p, q) == Abs(q.lat - p.lat)

(* ------------------------------------------------------------------ *)
(* Reading the Fix sequence                                             *)
(* ------------------------------------------------------------------ *)

N == Len(points)
P(k) == points[k + 1]
InRange(k) == k >= 0 /\ k < N

(* ------------------------------------------------------------------ *)
(* Windowed statistics                                                  *)
(* ------------------------------------------------------------------ *)

(* The forward scan of calculate_max_distance_window: the last index   *)
(* appended to window_points, scanning from k while the timestamp is   *)
(* within end_time and stopping at the first Fix beyond it.            *)
RECURSIVE ScanForwardExclusive(_, _, _)
ScanForwardExclusive(last, k, end_time) ==
    IF k < N /\ P(k).t < end_time
    THEN ScanForwardExclusive(k, k + 1, end_time)
    ELSE last

RECURSIVE ScanForward(_, _, _)
ScanForward(last, k, end_time) ==
    IF k < N /\ P(k).t <= end_time
    THEN ScanForward(k, k + 1, end_time)
    ELSE last

window_last(start_index, duration_seconds) ==
    ScanForward(start_index, start_index + 1,
                P(start_index).t + duration_seconds)

(* Only neighbouring Fixes of the window are compared. *)
calculate_max_distance_window_neighbours(start_index, duration_seconds) ==
    LET last == window_last(start_index, duration_seconds)
    IN  SetMax({0} \cup {haversine(P(a), P(a + 1)) :
                           a \in start_index .. (last - 1)})

calculate_max_distance_window(start_index, duration_seconds) ==
    LET last == window_last(start_index, duration_seconds)
        window_points == start_index .. last
    IN  SetMax({0} \cup {haversine(P(pair[1]), P(pair[2])) :
                    pair \in {pr \in window_points \X window_points :
                                 pr[1] < pr[2]}})

RECURSIVE total_distance(_, _)
total_distance(from, to) ==
    IF from >= to THEN 0
    ELSE total_distance(from, to - 1) + haversine(P(to - 1), P(to))

RECURSIVE total_time(_, _)
total_time(from, to) ==
    IF from >= to THEN 0
    ELSE total_time(from, to - 1) + (P(to).t - P(to - 1).t)

(* The last nb_points Fixes, that is nb_points - 1 segments. *)
pace_start_index_short(index, nb_points) ==
    IF index < nb_points THEN 0 ELSE index - nb_points + 1

pace_start_index(index, nb_points) ==
    IF index < nb_points THEN 0 ELSE index - nb_points

calculate_average_pace_last_points(index, nb_points) ==
    LET start_index == pace_start_index(index, nb_points)
        d == total_distance(start_index, index)
        s == total_time(start_index, index)
    IN  IF start_index >= index THEN NoData
        ELSE IF d = 0 \/ s = 0 THEN NoData
        ELSE Val(s * 1000 * HalfMetres(1), d * 60)

(* The backward scan of calculate_point_density_last_seconds: the      *)
(* number of Fixes counted from k downwards before the first Fix older *)
(* than start_time.                                                     *)
RECURSIVE ScanBackwardExclusive(_, _, _)
ScanBackwardExclusive(count, k, start_time) ==
    IF k >= 0 /\ P(k).t > start_time
    THEN ScanBackwardExclusive(count + 1, k - 1, start_time)
    ELSE count

RECURSIVE ScanBackward(_, _, _)
ScanBackward(count, k, start_time) ==
    IF k >= 0 /\ P(k).t >= start_time
    THEN ScanBackward(count + 1, k - 1, start_time)
    ELSE count

nb_window_points(index, duration_seconds) ==
    ScanBackward(0, index, P(index).t - duration_seconds)

(* The intervals between the counted Fixes are counted, not the Fixes. *)
calculate_point_density_last_seconds_intervals(index, duration_seconds) ==
    LET nb == nb_window_points(index, duration_seconds)
        actual_time == P(index).t - P(index - nb + 1).t
    IN  IF index = 0 THEN NoData
        ELSE IF nb < 2 THEN NoData
        ELSE IF actual_time = 0 THEN NoData
        ELSE Val(nb - 1, actual_time)

calculate_point_density_last_seconds(index, duration_seconds) ==
    LET nb == nb_window_points(index, duration_seconds)
        actual_time == P(index).t - P(index - nb + 1).t
    IN  IF index = 0 THEN NoData
        ELSE IF nb < 2 THEN NoData
        ELSE IF actual_time = 0 THEN NoData
        ELSE Val(nb, actual_time)

(* ------------------------------------------------------------------ *)
(* Indices read by one scan step; reading outside the list raises.      *)
(* ------------------------------------------------------------------ *)

pace_reads(index, nb_points) ==
    LET start_index == pace_start_index(index, nb_points)
    IN  IF start_index >= index THEN {}
        ELSE start_index .. index

density_reads(index, duration_seconds) ==
    IF index = 0 THEN {}
    ELSE LET nb == nb_window_points(index, duration_seconds)
         IN  {index} \cup ((index - nb + 1) .. index)

start_reads(index) ==
    {index} \cup pace_reads(index, cfg.nb_points_pace)
            \cup density_reads(index, cfg.density_window)

end_reads(index) ==
    {index} \cup pace_reads(index, cfg.nb_points_pace_end)

(* ------------------------------------------------------------------ *)
(* The criteria of the two-state machine                                *)
(* ------------------------------------------------------------------ *)

distance_criterion_start_inclusive(max_distance) ==
    max_distance <= HalfMetres(cfg.threshold_start)

distance_criterion_start(max_distance) ==
    max_distance < HalfMetres(cfg.threshold_start)

(* "No data" no longer satisfies the criterion. *)
pace_criterion_start_needs_data(avg_pace) ==
    (~avg_pace.none) /\ Less(Val(cfg.pace_threshold, 1), avg_pace)

pace_criterion_start(avg_pace) ==
    avg_pace.none \/ Less(Val(cfg.pace_threshold, 1), avg_pace)

density_criterion_start_needs_data(point_density) ==
    (~point_density.none)
    /\ Less(point_density, Val(cfg.density_threshold, 1))

density_criterion_start(point_density) ==
    point_density.none \/ Less(point_density, Val(cfg.density_threshold, 1))

start_criteria(index) ==
    /\ distance_criterion_start(
           calculate_max_distance_window(index, cfg.time_window))
    /\ pace_criterion_start(
           calculate_average_pace_last_points(index, cfg.nb_points_pace))
    /\ density_criterion_start(
           calculate_point_density_last_seconds(index, cfg.density_window))

distance_criterion_end(max_distance) ==
    max_distance > HalfMetres(cfg.threshold_end)

(* "No data" satisfies the criterion, as it does for the start. *)
pace_criterion_end_lenient(avg_pace) ==
    avg_pace.none \/ Less(avg_pace, Val(cfg.pace_threshold_end, 1))

pace_criterion_end(avg_pace) ==
    (~avg_pace.none) /\ Less(avg_pace, Val(cfg.pace_threshold_end, 1))

end_criteria(index) ==
    /\ distance_criterion_end(
           calculate_max_distance_window(index, cfg.time_window_end))
    /\ pace_criterion_end(
           calculate_average_pace_last_points(index, cfg.nb_points_pace_end))

(* ------------------------------------------------------------------ *)
(* The pause record                                                     *)
(* ------------------------------------------------------------------ *)

activity_start_time == P(0).t

(* The last segment of the pause is left out of the sum. *)
distance_during_pause_short(start_index, end_index) ==
    total_distance(start_index, end_index - 1)

distance_during_pause(start_index, end_index) ==
    total_distance(start_index, end_index)

pause_info(start_fix, start_index, start_distance, end_index) ==
    LET pause_end == P(end_index)
        pause_end_distance == cumulative_distances[end_index + 1]
    IN  [start |-> start_fix.t,
         end |-> pause_end.t,
         duration_seconds |-> pause_end.t - start_fix.t,
         time_from_start_seconds |-> start_fix.t - activity_start_time,
         start_coords |-> start_fix.lat,
         end_coords |-> pause_end.lat,
         distance_meters |-> distance_during_pause(start_index, end_index),
         start_index |-> start_index,
         end_index |-> end_index,
         distance_start_km |-> Val(start_distance, HalfMetres(1000)),
         distance_end_km |-> Val(pause_end_distance, HalfMetres(1000)),
         nb_points |-> end_index - start_index + 1]

(* ------------------------------------------------------------------ *)
(* Average pace during a pause                                          *)
(* ------------------------------------------------------------------ *)

RECURSIVE GCD(_, _)
GCD(a, b) == IF b = 0 THEN a ELSE GCD(b, a % b)

(* A fraction in lowest terms. *)
Reduce(v) ==
    IF v.none THEN v
    ELSE LET g == GCD(v.num, v.den)
         IN  IF g = 0 THEN v ELSE Val(v.num \div g, v.den \div g)

Plus(a, b) == Reduce(Val(a.num * b.den + b.num * a.den, a.den * b.den))

(* The paces of the segments from..to that have a positive distance    *)
(* and a positive duration, in the order of the loop.                   *)
RECURSIVE instantaneous_paces(_, _)
instantaneous_paces(from, to) ==
    IF from >= to THEN << >>
    ELSE LET distance_meters == haversine(P(to - 1), P(to))
             duration_seconds == P(to).t - P(to - 1).t
             before == instantaneous_paces(from, to - 1)
         IN  IF distance_meters > 0 /\ duration_seconds > 0
             THEN Append(before,
                         Reduce(Val(duration_seconds * 1000 * HalfMetres(1),
                                    distance_meters * 60)))
             ELSE before

RECURSIVE sum(_)
sum(paces) ==
    IF paces = << >> THEN Val(0, 1)
    ELSE Plus(sum(SubSeq(paces, 1, Len(paces) - 1)), paces[Len(paces)])

(* The mean is taken over every segment, moving or not. *)
calculate_average_pace_during_pause_all_segments(start_index, end_index) ==
    LET paces == instantaneous_paces(start_index, end_index)
    IN  IF N = 0 \/ start_index >= end_index THEN NoData
        ELSE IF Len(paces) = 0 THEN NoData
        ELSE LET total == sum(paces)
             IN  Reduce(Val(total.num, total.den * (end_index - start_index)))

calculate_average_pace_during_pause(start_index, end_index) ==
    LET paces == instantaneous_paces(start_index, end_index)
    IN  IF N = 0 \/ start_index >= end_index THEN NoData
        ELSE IF Len(paces) = 0 THEN NoData
        ELSE LET total == sum(paces)
             IN  Reduce(Val(total.num, total.den * Len(paces)))

(* ------------------------------------------------------------------ *)
(* Inputs                                                               *)
(* ------------------------------------------------------------------ *)

(* One recorded step: seconds elapsed and metres moved northwards. *)
Steps == {<<0, 0>>, <<1, 0>>, <<1, 30>>, <<1, 40>>, <<1, -40>>,
          <<20, 10>>, <<50, 0>>, <<50, 80>>}

FirstFix == [lat |-> 0, t |-> 0]

NextFix(fix, step) ==
    [lat |-> fix.lat + HalfMetres(step[2]), t |-> fix.t + step[1]]

RECURSIVE TracksOfLen(_)
TracksOfLen(n) ==
    IF n = 0 THEN {<< >>}
    ELSE IF n = 1 THEN {<<FirstFix>>}
    ELSE {Append(tr, NextFix(tr[Len(tr)], st)) :
              tr \in TracksOfLen(n - 1), st \in Steps}

Tracks == UNION {TracksOfLen(n) : n \in 0 .. MaxLen}

NoResult == [pauses |-> << >>, points |-> << >>]
NoSegment == [start_index |-> None, end_index |-> None]

InitScan ==
    /\ pc = "entry"
    /\ i = 0
    /\ in_pause = FALSE
    /\ pause_start = NoFix
    /\ pause_start_index = None
    /\ pause_start_distance = None
    /\ cumulative_distances = << >>
    /\ pauses = << >>
    /\ result = NoResult
    /\ queries = 0
    /\ segment = NoSegment
    /\ average_pace = NoData

Init ==
    /\ points \in Tracks
    /\ cfg \in Configs
    /\ InitScan

(* ------------------------------------------------------------------ *)
(* detect_pauses                                                        *)
(* ------------------------------------------------------------------ *)

not_enough_points_one_fix == N < 1

not_enough_points == N < 2

(* Fewer than two Fixes: the error is printed and ([], points) returned. *)
Reject ==
    /\ pc = "entry"
    /\ not_enough_points
    /\ pc' = "rejected"
    /\ result' = [pauses |-> << >>, points |-> points]
    /\ UNCHANGED <<segment, average_pace, points, cfg, i, in_pause, pause_start, pause_start_index,
                   pause_start_distance, cumulative_distances, pauses,
                   queries>>

Enter ==
    /\ pc = "entry"
    /\ ~not_enough_points
    /\ cumulative_distances' = <<0>>
    /\ pc' = "cumulate"
    /\ UNCHANGED <<segment, average_pace, points, cfg, i, in_pause, pause_start, pause_start_index,
                   pause_start_distance, pauses, result, queries>>

(* The distance of the segment is appended, not the running total. *)
AccumulateSegmentOnly ==
    /\ pc = "cumulate"
    /\ Len(cumulative_distances) < N
    /\ LET k == Len(cumulative_distances) - 1
       IN  cumulative_distances' =
               Append(cumulative_distances, haversine(P(k), P(k + 1)))
    /\ UNCHANGED <<segment, average_pace, points, cfg, pc, i, in_pause,
                   pause_start, pause_start_index, pause_start_distance,
                   pauses, result, queries>>

(* One iteration of the loop filling cumulative_distances. *)
Accumulate ==
    /\ pc = "cumulate"
    /\ Len(cumulative_distances) < N
    /\ LET k == Len(cumulative_distances) - 1
       IN  cumulative_distances' =
               Append(cumulative_distances,
                      cumulative_distances[k + 1] + haversine(P(k), P(k + 1)))
    /\ UNCHANGED <<segment, average_pace, points, cfg, pc, i, in_pause, pause_start,
                   pause_start_index, pause_start_distance, pauses, result,
                   queries>>

(* The scan starts at the second Fix. *)
BeginScanSkipsFirst ==
    /\ pc = "cumulate"
    /\ ~(Len(cumulative_distances) < N)
    /\ pauses' = << >>
    /\ in_pause' = FALSE
    /\ pause_start' = NoFix
    /\ pause_start_index' = None
    /\ pause_start_distance' = None
    /\ i' = 1
    /\ pc' = "scan"
    /\ UNCHANGED <<segment, average_pace, points, cfg, cumulative_distances,
                   result, queries>>

(* The state of the scan is initialised once the loop above is over. *)
BeginScan ==
    /\ pc = "cumulate"
    /\ ~(Len(cumulative_distances) < N)
    /\ pauses' = << >>
    /\ in_pause' = FALSE
    /\ pause_start' = NoFix
    /\ pause_start_index' = None
    /\ pause_start_distance' = None
    /\ i' = 0
    /\ pc' = "scan"
    /\ UNCHANGED <<segment, average_pace, points, cfg, cumulative_distances, result, queries>>

(* The end criteria are tested in the iteration that opened the pause  *)
(* ("if in_pause" in place of "else").                                  *)
CheckStartFallsThrough ==
    /\ pc = "scan"
    /\ i < N
    /\ ~in_pause
    /\ pc' = "scan"
    /\ i' = i + 1
    /\ IF start_criteria(i) /\ end_criteria(i)
       THEN /\ pauses' = Append(pauses,
                   pause_info(P(i), i, cumulative_distances[i + 1], i))
            /\ UNCHANGED <<in_pause, pause_start, pause_start_index,
                           pause_start_distance>>
       ELSE IF start_criteria(i)
       THEN /\ in_pause' = TRUE
            /\ pause_start' = P(i)
            /\ pause_start_index' = i
            /\ pause_start_distance' = cumulative_distances[i + 1]
            /\ UNCHANGED pauses
       ELSE UNCHANGED <<in_pause, pause_start, pause_start_index,
                        pause_start_distance, pauses>>
    /\ queries' = queries + 3
    /\ UNCHANGED <<segment, average_pace, points, cfg, cumulative_distances, result>>

(* One iteration of the scan while not paused. *)
CheckStart ==
    /\ pc = "scan"
    /\ i < N
    /\ ~in_pause
    /\ IF ~(\A k \in start_reads(i) : InRange(k))
       THEN /\ pc' = "raised"
            /\ UNCHANGED <<i, in_pause, pause_start, pause_start_index,
                           pause_start_distance>>
       ELSE /\ pc' = "scan"
            /\ i' = i + 1
            /\ IF start_criteria(i)
               THEN /\ in_pause' = TRUE
                    /\ pause_start' = P(i)
                    /\ pause_start_index' = i
                    /\ pause_start_distance' = cumulative_distances[i + 1]
               ELSE UNCHANGED <<in_pause, pause_start, pause_start_index,
                                pause_start_distance>>
    /\ queries' = queries + 3
    /\ UNCHANGED <<segment, average_pace, points, cfg, cumulative_distances, pauses, result>>

(* The flag is reset on closing but the recorded start is kept. *)
CheckEndLeavesPayload ==
    /\ pc = "scan"
    /\ i < N
    /\ in_pause
    /\ pc' = "scan"
    /\ i' = i + 1
    /\ IF end_criteria(i)
       THEN /\ pauses' = Append(pauses,
                   pause_info(pause_start, pause_start_index,
                              pause_start_distance, i))
            /\ in_pause' = FALSE
       ELSE UNCHANGED <<in_pause, pauses>>
    /\ queries' = queries + 2
    /\ UNCHANGED <<segment, average_pace, points, cfg, cumulative_distances,
                   result, pause_start, pause_start_index,
                   pause_start_distance>>

(* The closed pause is put in front of the list. *)
CheckEndPrepends ==
    /\ pc = "scan"
    /\ i < N
    /\ in_pause
    /\ pc' = "scan"
    /\ i' = i + 1
    /\ IF end_criteria(i)
       THEN /\ pauses' = <<pause_info(pause_start, pause_start_index,
                                      pause_start_distance, i)>> \o pauses
            /\ in_pause' = FALSE
            /\ pause_start' = NoFix
            /\ pause_start_index' = None
            /\ pause_start_distance' = None
       ELSE UNCHANGED <<in_pause, pause_start, pause_start_index,
                        pause_start_distance, pauses>>
    /\ queries' = queries + 2
    /\ UNCHANGED <<segment, average_pace, points, cfg, cumulative_distances,
                   result>>

(* After closing a pause the start criteria are tested at the same     *)
(* index.                                                               *)
CheckEndReopens ==
    /\ pc = "scan"
    /\ i < N
    /\ in_pause
    /\ pc' = "scan"
    /\ i' = i + 1
    /\ IF end_criteria(i)
       THEN /\ pauses' = Append(pauses,
                   pause_info(pause_start, pause_start_index,
                              pause_start_distance, i))
            /\ IF start_criteria(i)
               THEN /\ in_pause' = TRUE
                    /\ pause_start' = P(i)
                    /\ pause_start_index' = i
                    /\ pause_start_distance' = cumulative_distances[i + 1]
               ELSE /\ in_pause' = FALSE
                    /\ pause_start' = NoFix
                    /\ pause_start_index' = None
                    /\ pause_start_distance' = None
            /\ queries' = queries + 5
       ELSE /\ UNCHANGED <<in_pause, pause_start, pause_start_index,
                           pause_start_distance, pauses>>
            /\ queries' = queries + 2
    /\ UNCHANGED <<segment, average_pace, points, cfg, cumulative_distances,
                   result>>

(* The closed pause is appended but the state is not reset. *)
CheckEndKeepsPause ==
    /\ pc = "scan"
    /\ i < N
    /\ in_pause
    /\ pc' = "scan"
    /\ i' = i + 1
    /\ pauses' = IF end_criteria(i)
                 THEN Append(pauses,
                          pause_info(pause_start, pause_start_index,
                                     pause_start_distance, i))
                 ELSE pauses
    /\ queries' = queries + 2
    /\ UNCHANGED <<segment, average_pace, points, cfg, cumulative_distances, result, in_pause,
                   pause_start, pause_start_index, pause_start_distance>>

(* One iteration of the scan while paused. *)
CheckEnd ==
    /\ pc = "scan"
    /\ i < N
    /\ in_pause
    /\ IF ~(\A k \in end_reads(i) : InRange(k))
       THEN /\ pc' = "raised"
            /\ UNCHANGED <<i, in_pause, pause_start, pause_start_index,
                           pause_start_distance, pauses>>
       ELSE /\ pc' = "scan"
            /\ i' = i + 1
            /\ IF end_criteria(i)
               THEN /\ pauses' = Append(pauses,
                           pause_info(pause_start, pause_start_index,
                                      pause_start_distance, i))
                    /\ in_pause' = FALSE
                    /\ pause_start' = NoFix
                    /\ pause_start_index' = None
                    /\ pause_start_distance' = None
               ELSE UNCHANGED <<in_pause, pause_start, pause_start_index,
                                pause_start_distance, pauses>>
    /\ queries' = queries + 2
    /\ UNCHANGED <<segment, average_pace, points, cfg, cumulative_distances, result>>

(* The block after the loop is missing: an open pause is dropped. *)
EndOfTrackDropsOpenPause ==
    /\ pc = "scan"
    /\ ~(i < N)
    /\ result' = [pauses |-> pauses, points |-> points]
    /\ pc' = "done"
    /\ UNCHANGED <<segment, average_pace, points, cfg, i, in_pause, pause_start, pause_start_index,
                   pause_start_distance, cumulative_distances, pauses,
                   queries>>

(* The loop is over: an open pause is closed on the last Fix, and      *)
(* (pauses, points) is returned.                                        *)
EndOfTrack ==
    /\ pc = "scan"
    /\ ~(i < N)
    /\ pauses' = IF in_pause
                 THEN Append(pauses,
                          pause_info(pause_start, pause_start_index,
                                     pause_start_distance, N - 1))
                 ELSE pauses
    /\ result' = [pauses |-> pauses', points |-> points]
    /\ pc' = "done"
    /\ UNCHANGED <<segment, average_pace, points, cfg, i, in_pause, pause_start, pause_start_index,
                   pause_start_distance, cumulative_distances, queries>>

Next ==
    \/ Reject
    \/ Enter
    \/ Accumulate
    \/ BeginScan
    \/ CheckStart
    \/ CheckEnd
    \/ EndOfTrack

Spec == Init /\ [][Next]_vars

(* The call runs to its end: it is one thread that is never suspended. *)
FairSpec == Init /\ [][Next]_vars /\ WF_vars(Next)

(* ------------------------------------------------------------------ *)
(* Two synthetic tracks, under the default configuration                *)
(* ------------------------------------------------------------------ *)

(* 60 Fixes at 1 Hz that alternate between two places `jitter` metres  *)
(* apart, then 60 Fixes at 1 Hz advancing 3 m/s.                        *)
StationaryThenMoving(jitter) ==
    [k \in 1 .. 60 + 60 |->
        IF k <= 60
        THEN [lat |-> HalfMetres(jitter) * ((k - 1) % 2), t |-> k - 1]
        ELSE [lat |-> HalfMetres(jitter) + HalfMetres(3) * (k - 60),
              t |-> k - 1]]

InitSynthetic ==
    /\ points \in {StationaryThenMoving(jitter) : jitter \in {0, 1, 2}}
    /\ cfg = DefaultConfig
    /\ InitScan

NextSynthetic ==
    \/ Enter
    \/ Accumulate
    \/ BeginScan
    \/ CheckStart
    \/ CheckEnd
    \/ EndOfTrack

SpecSynthetic == InitSynthetic /\ [][NextSynthetic]_vars

(* Tracks sampled at 1 Hz, under the default configuration: the        *)
(* stationary-then-moving tracks above, and tracks of 15 Fixes         *)
(* advancing 3 m/s followed by 25 Fixes that alternate between two     *)
(* places `jitter` metres apart.                                        *)
MovingThenStationary(jitter) ==
    [k \in 1 .. 15 + 25 |->
        IF k <= 15
        THEN [lat |-> HalfMetres(3) * (k - 1), t |-> k - 1]
        ELSE [lat |-> HalfMetres(3) * 14 + HalfMetres(jitter) * ((k - 15) % 2),
              t |-> k - 1]]

OneHertzTracks ==
    {StationaryThenMoving(jitter) : jitter \in {0, 1, 2}}
        \cup {MovingThenStationary(jitter) : jitter \in {0, 1}}

InitOneHertz ==
    /\ points \in OneHertzTracks
    /\ cfg = DefaultConfig
    /\ InitScan

NextOneHertz ==
    \/ Enter
    \/ Accumulate
    \/ BeginScan
    \/ CheckStart
    \/ CheckEnd
    \/ EndOfTrack

SpecOneHertz == InitOneHertz /\ [][NextOneHertz]_vars

(* 30 minutes at 1 Hz in a straight line at 1.5 m/s, 3 half metres a   *)
(* second.                                                              *)
SteadyTrack ==
    [k \in 1 .. 30 * 60 |-> [lat |-> 3 * (k - 1), t |-> k - 1]]

(* The scan of the steady track, taken at any of its indices: the      *)
(* track only moves northwards, so the cumulative distance at a Fix is *)
(* its lat, and the machine is not paused (no step of this             *)
(* specification opens a pause, from whichever index it is taken).      *)
InitSteady ==
    /\ points = SteadyTrack
    /\ cfg = DefaultConfig
    /\ pc = "scan"
    /\ i \in 0 .. Len(SteadyTrack) - 1
    /\ in_pause = FALSE
    /\ pause_start = NoFix
    /\ pause_start_index = None
    /\ pause_start_distance = None
    /\ cumulative_distances =
           [k \in 1 .. Len(SteadyTrack) |-> SteadyTrack[k].lat]
    /\ pauses = << >>
    /\ result = NoResult
    /\ queries = 3 * i
    /\ segment = NoSegment
    /\ average_pace = NoData

NextSteady ==
    \/ CheckStart
    \/ EndOfTrack

SpecSteady == InitSteady /\ [][NextSteady]_vars

(* ------------------------------------------------------------------ *)
(* The average pace of an interval of a track                           *)
(* ------------------------------------------------------------------ *)

(* The call made for a pause of the report; here for any interval of   *)
(* indices of the track.                                                *)
InitAveragePace ==
    /\ points \in Tracks
    /\ cfg = DefaultConfig
    /\ pc = "pace_call"
    /\ i = 0
    /\ in_pause = FALSE
    /\ pause_start = NoFix
    /\ pause_start_index = None
    /\ pause_start_distance = None
    /\ cumulative_distances = << >>
    /\ pauses = << >>
    /\ result = NoResult
    /\ queries = 0
    /\ segment \in {[start_index |-> a, end_index |-> b] :
                        a \in 0 .. Len(points), b \in 0 .. Len(points) - 1}
    /\ average_pace = NoData

AveragePaceDuringPause ==
    /\ pc = "pace_call"
    /\ average_pace' = calculate_average_pace_during_pause(
                           segment.start_index, segment.end_index)
    /\ pc' = "pace_returned"
    /\ UNCHANGED <<points, cfg, i, in_pause, pause_start, pause_start_index,
                   pause_start_distance, cumulative_distances, pauses,
                   result, queries, segment>>

NextAveragePace == AveragePaceDuringPause

SpecAveragePace == InitAveragePace /\ [][NextAveragePace]_vars

(* ------------------------------------------------------------------ *)
(* The rules of the state machine, as the design states them            *)
(* ------------------------------------------------------------------ *)

StartRuleHolds(k) ==
    LET displacement == calculate_max_distance_window(k, cfg.time_window)
        pace == calculate_average_pace_last_points(k, cfg.nb_points_pace)
        density == calculate_point_density_last_seconds(k, cfg.density_window)
    IN  /\ displacement < HalfMetres(cfg.threshold_start)
        /\ (pace.none \/ pace.num > cfg.pace_threshold * pace.den)
        /\ (density.none \/ density.num < cfg.density_threshold * density.den)

EndRuleHolds(k) ==
    LET displacement == calculate_max_distance_window(k, cfg.time_window_end)
        pace == calculate_average_pace_last_points(k, cfg.nb_points_pace_end)
    IN  /\ displacement > HalfMetres(cfg.threshold_end)
        /\ ~pace.none
        /\ pace.num < cfg.pace_threshold_end * pace.den

(* Sum of the point-to-point distances of the segments s..e. *)
RECURSIVE SegmentSum(_, _)
SegmentSum(s, e) ==
    IF s >= e THEN 0
    ELSE Abs(P(s + 1).lat - P(s).lat) + SegmentSum(s + 1, e)

Returned == pc = "done"
LastPause == result.pauses[Len(result.pauses)]

(* ------------------------------------------------------------------ *)
(* C1                                                                   *)
(* ------------------------------------------------------------------ *)

(* C1 as stated: a track of exactly two Fixes under the default        *)
(* configuration is scanned without raising and yields no pause.        *)
TwoFixesYieldNoPause ==
    (N = 2 /\ cfg = DefaultConfig) =>
        /\ pc \notin {"raised", "rejected"}
        /\ (Returned => result.pauses = << >>)

(* C1 amended: a track of exactly two Fixes under the default          *)
(* configuration is scanned without raising and yields at most one     *)
(* pause, which ends at index 1; the result is empty exactly when the  *)
(* start rule holds neither at index 0 nor at index 1.                  *)
TwoFixesYieldAtMostOnePause ==
    (N = 2 /\ cfg = DefaultConfig) =>
        /\ pc \notin {"raised", "rejected"}
        /\ (Returned =>
              /\ Len(result.pauses) <= 1
              /\ \A k \in 1 .. Len(result.pauses) :
                     result.pauses[k].end_index = 1
              /\ (result.pauses = << >>) <=>
                     (~StartRuleHolds(0) /\ ~StartRuleHolds(1)))

TwoFixesPauseReturned ==
    /\ N = 2
    /\ cfg = DefaultConfig
    /\ Returned
    /\ Len(result.pauses) = 1
    /\ LastPause.start_index = 0

(* ------------------------------------------------------------------ *)
(* C2                                                                   *)
(* ------------------------------------------------------------------ *)

(* C2: when the scan is over and the machine is still paused, the last *)
(* element of the result is the one interval of the open pause: it     *)
(* starts where the pause started, ends at index n-1 with the last     *)
(* Fix's timestamp, and its fields are those of a closure at n-1.       *)
OpenPauseClosedOnLastFix ==
    (Returned /\ in_pause) =>
        /\ Len(result.pauses) >= 1
        /\ LastPause.start_index = pause_start_index
        /\ LastPause.end_index = N - 1
        /\ LastPause.end = P(N - 1).t
        /\ LastPause.end_coords = P(N - 1).lat
        /\ LastPause.duration_seconds = P(N - 1).t - P(pause_start_index).t
        /\ LastPause.distance_meters = SegmentSum(pause_start_index, N - 1)
        /\ LastPause.nb_points = N - pause_start_index
        /\ Cardinality({k \in 1 .. Len(result.pauses) :
               result.pauses[k].start_index = pause_start_index}) = 1
        /\ result.pauses = pauses

OpenPauseAfterClosedPause ==
    /\ Returned
    /\ in_pause
    /\ Len(result.pauses) >= 2
    /\ pause_start_index < N - 1

(* ------------------------------------------------------------------ *)
(* C3                                                                   *)
(* ------------------------------------------------------------------ *)

(* C3: consecutive intervals of the result do not overlap: each starts *)
(* after the end of the one before it, under every configuration.       *)
IntervalsDisjointAndIncreasing ==
    /\ \A k \in 1 .. Len(pauses) - 1 :
           pauses[k + 1].start_index > pauses[k].end_index
    /\ \A k \in 1 .. Len(result.pauses) - 1 :
           result.pauses[k + 1].start_index > result.pauses[k].end_index

TwoIntervalsReturned ==
    /\ Returned
    /\ Len(result.pauses) >= 2
    /\ result.pauses[1].end_index > result.pauses[1].start_index

(* ------------------------------------------------------------------ *)
(* C4                                                                   *)
(* ------------------------------------------------------------------ *)

(* C4 as stated: on the stationary-then-moving track a pause is        *)
(* detected and it starts no earlier than the 10th sample (index 9).    *)
SyntheticPauseStartsAtTenthSample ==
    Returned =>
        /\ Len(result.pauses) >= 1
        /\ \A k \in 1 .. Len(result.pauses) :
               result.pauses[k].start_index >= 9

(* C4 amended: on the stationary-then-moving track exactly one pause   *)
(* is detected and it starts at the first sample (index 0), where pace *)
(* and density are "no data"; it is closed before the track ends.       *)
SyntheticPauseStartsAtFirstSample ==
    Returned =>
        /\ Len(result.pauses) = 1
        /\ result.pauses[1].start_index = 0
        /\ result.pauses[1].end_index > result.pauses[1].start_index
        /\ result.pauses[1].end_index < N - 1

SyntheticPauseReturned ==
    /\ Returned
    /\ Len(result.pauses) = 1
    /\ N = 60 + 60
    /\ result.pauses[1].end_index >= 60

(* ------------------------------------------------------------------ *)
(* C5                                                                   *)
(* ------------------------------------------------------------------ *)

(* C5 as stated: every emitted interval, closed by the end rule or at  *)
(* the end of the track, has end_index > start_index (nb_points >= 2).  *)
EveryIntervalSpansTwoFixes ==
    \A k \in 1 .. Len(pauses) :
        /\ pauses[k].end_index > pauses[k].start_index
        /\ pauses[k].nb_points >= 2

(* C5 amended: every emitted interval has end_index >= start_index     *)
(* (nb_points >= 1); an interval closed by the end rule has            *)
(* end_index > start_index, and end_index = start_index happens only   *)
(* for the interval closed at the end of the track when the pause      *)
(* started at the last index.                                           *)
OnlyLastFixPauseIsSingleFix ==
    \A k \in 1 .. Len(pauses) :
        /\ pauses[k].end_index >= pauses[k].start_index
        /\ pauses[k].nb_points >= 1
        /\ (pauses[k].end_index = pauses[k].start_index =>
               /\ Returned
               /\ in_pause
               /\ k = Len(pauses)
               /\ pauses[k].start_index = N - 1)

SingleFixPauseAfterClosedPause ==
    /\ Returned
    /\ Len(result.pauses) >= 2
    /\ LastPause.nb_points = 1
    /\ result.pauses[1].nb_points >= 2

(* ------------------------------------------------------------------ *)
(* C6                                                                   *)
(* ------------------------------------------------------------------ *)

(* C6: a scan step taken while not paused at index i moves to PAUSED   *)
(* if and only if the three start criteria hold at i (displacement     *)
(* strictly below distStart; pace "no data" or above paceStart;        *)
(* density "no data" or below densityThresh), and then records the     *)
(* Fix, the index i and cumulative[i] as the start of the pause.        *)
StartTransitionRule ==
    [][(pc = "scan" /\ i < N /\ ~in_pause) =>
          /\ in_pause' <=> StartRuleHolds(i)
          /\ in_pause' =>
                /\ pause_start_index' = i
                /\ pause_start' = P(i)
                /\ pause_start_distance' = cumulative_distances[i + 1]
          /\ pauses' = pauses]_vars

(* A pause opened on concrete pace and density values. *)
PauseStartedOnData ==
    /\ pc = "scan"
    /\ in_pause
    /\ pause_start_index = i - 1
    /\ pause_start_index >= 1
    /\ ~calculate_average_pace_last_points(
            pause_start_index, cfg.nb_points_pace).none
    /\ ~calculate_point_density_last_seconds(
            pause_start_index, cfg.density_window).none

(* ------------------------------------------------------------------ *)
(* C7                                                                   *)
(* ------------------------------------------------------------------ *)

(* C7: a scan step taken while paused at index i closes the pause if   *)
(* and only if both end criteria hold at i (displacement strictly      *)
(* above distEnd; pace a concrete value below paceEnd, "no data" never *)
(* closing); the interval it appends ends at i, and at no index        *)
(* between the start of the pause and i did both criteria hold.         *)
EndTransitionRule ==
    [][(pc = "scan" /\ i < N /\ in_pause) =>
          /\ (~in_pause') <=> EndRuleHolds(i)
          /\ (Len(pauses') = Len(pauses) + 1) <=> EndRuleHolds(i)
          /\ (~EndRuleHolds(i)) => pauses' = pauses
          /\ EndRuleHolds(i) =>
                LET closed == pauses'[Len(pauses')]
                IN  /\ closed.end_index = i
                    /\ closed.start_index = pause_start_index
                    /\ closed.start_index < i
                    /\ \A k \in (closed.start_index + 1) .. (i - 1) :
                           ~EndRuleHolds(k)]_vars

(* A pause closed after an index where the displacement was above      *)
(* distEnd but the pace was "no data".                                  *)
PauseClosedAfterNoDataPace ==
    /\ pc = "scan"
    /\ ~in_pause
    /\ Len(pauses) >= 1
    /\ pauses[Len(pauses)].end_index = i - 1
    /\ \E k \in (pauses[Len(pauses)].start_index + 1) .. (i - 2) :
           /\ calculate_max_distance_window(k, cfg.time_window_end)
                  > HalfMetres(cfg.threshold_end)
           /\ calculate_average_pace_last_points(
                  k, cfg.nb_points_pace_end).none

(* ------------------------------------------------------------------ *)
(* C8                                                                   *)
(* ------------------------------------------------------------------ *)

(* C8: with fewer than two Fixes the call only reports the lack of     *)
(* data and returns an empty list with the Fixes: no query is          *)
(* evaluated, no cumulative distance is computed and the scan state    *)
(* is never touched.                                                    *)
ShortTrackIsRejectedUnscanned ==
    (N < 2) =>
        /\ pc \in {"entry", "rejected"}
        /\ queries = 0
        /\ i = 0
        /\ ~in_pause
        /\ pause_start_index = None
        /\ pauses = << >>
        /\ cumulative_distances = << >>
        /\ (pc = "rejected" =>
               result = [pauses |-> << >>, points |-> points])
        /\ (pc = "entry" => result = NoResult)

SingleFixRejected ==
    /\ N = 1
    /\ pc = "rejected"

(* ------------------------------------------------------------------ *)
(* C9                                                                   *)
(* ------------------------------------------------------------------ *)

(* C9 as stated: on the steady 1.5 m/s track the displacement over the *)
(* 45 s window exceeds 30 m at every index the scan visits.             *)
SteadyDisplacementExceedsEverywhere ==
    (pc = "scan" /\ i < N) =>
        calculate_max_distance_window(i, cfg.time_window)
            > HalfMetres(cfg.threshold_start)

(* C9 amended: on the steady 1.5 m/s track the displacement over the   *)
(* 45 s window exceeds 30 m at every index i <= n - 22, those followed *)
(* by at least 21 Fixes; at the last 20 indices the window is cut by   *)
(* the end of the track, the displacement is 1.5 m per remaining Fix   *)
(* (at most 28.5 m) and the start distance criterion holds; yet no     *)
(* pause starts anywhere on the track.                                  *)
SteadyDisplacementExceedsUntilTail ==
    /\ (pc = "scan" /\ i < N) =>
          LET displacement ==
                  calculate_max_distance_window(i, cfg.time_window)
          IN  /\ (i <= N - 22) =>
                     displacement > HalfMetres(cfg.threshold_start)
              /\ (i >= N - 20) =>
                     /\ displacement = 3 * (N - 1 - i)
                     /\ displacement < HalfMetres(cfg.threshold_start)
    /\ ~in_pause
    /\ pauses = << >>
    /\ result.pauses = << >>

SteadyTailReached ==
    /\ pc = "scan"
    /\ i = N - 20
    /\ N = 30 * 60
    /\ calculate_max_distance_window(i, cfg.time_window) = 3 * 19

(* ------------------------------------------------------------------ *)
(* C10                                                                  *)
(* ------------------------------------------------------------------ *)

IntervalFieldsAgree(p) ==
    LET s == p.start_index
        e == p.end_index
    IN  /\ InRange(s)
        /\ InRange(e)
        /\ p.start = P(s).t
        /\ p.start_coords = P(s).lat
        /\ p.end = P(e).t
        /\ p.end_coords = P(e).lat
        /\ p.duration_seconds = P(e).t - P(s).t
        /\ p.duration_seconds >= 0
        /\ p.distance_meters = SegmentSum(s, e)
        /\ p.nb_points = e - s + 1
        /\ ~p.distance_start_km.none
        /\ ~p.distance_end_km.none
        /\ SameValue(p.distance_start_km,
                     Val(cumulative_distances[s + 1], HalfMetres(1000)))
        /\ SameValue(p.distance_end_km,
                     Val(cumulative_distances[e + 1], HalfMetres(1000)))

(* C10: every emitted interval (s, e) carries Fix[s] and Fix[e], the   *)
(* duration t[e] - t[s] >= 0, the sum of the segment distances from s  *)
(* to e, the count e - s + 1, and the cumulative distances at s and e  *)
(* (stored in kilometres).                                              *)
IntervalFieldsAreDerivedFromIndices ==
    /\ \A k \in 1 .. Len(pauses) : IntervalFieldsAgree(pauses[k])
    /\ \A k \in 1 .. Len(result.pauses) :
           IntervalFieldsAgree(result.pauses[k])

MovingPauseReturned ==
    /\ Returned
    /\ \E k \in 1 .. Len(result.pauses) :
           /\ result.pauses[k].start_index >= 1
           /\ result.pauses[k].nb_points >= 3
           /\ result.pauses[k].distance_meters > 0
           /\ result.pauses[k].duration_seconds > 0

(* ------------------------------------------------------------------ *)
(* C11                                                                  *)
(* ------------------------------------------------------------------ *)

TotalPace(s, e) ==
    Reduce(Val((P(e).t - P(s).t) * 1000 * HalfMetres(1),
               SegmentSum(s, e) * 60))

MovingSegments(s, e) ==
    {k \in s .. (e - 1) : P(k + 1).lat # P(k).lat /\ P(k + 1).t > P(k).t}

SegmentPace(k) ==
    Reduce(Val((P(k + 1).t - P(k).t) * 1000 * HalfMetres(1),
               Abs(P(k + 1).lat - P(k).lat) * 60))

RECURSIVE PaceSum(_)
PaceSum(S) ==
    IF S = {} THEN Val(0, 1)
    ELSE LET k == CHOOSE x \in S : TRUE
         IN  Plus(SegmentPace(k), PaceSum(S \ {k}))

MeanSegmentPace(s, e) ==
    LET total == PaceSum(MovingSegments(s, e))
    IN  Reduce(Val(total.num,
                   total.den * Cardinality(MovingSegments(s, e))))

(* Every segment of s..e moves, takes time, and has the same pace. *)
UniformSegments(s, e) ==
    /\ MovingSegments(s, e) = s .. (e - 1)
    /\ \A k \in s .. (e - 1) : SegmentPace(k) = SegmentPace(s)

(* The interval ends where it started but its segments are not all of  *)
(* length 0.                                                            *)
NoisyZeroDisplacement(s, e) ==
    /\ InRange(s)
    /\ InRange(e)
    /\ s < e
    /\ P(e).lat = P(s).lat
    /\ SegmentSum(s, e) > 0
    /\ P(e).t > P(s).t

PaceReturnedFor(s, e) ==
    /\ pc = "pace_returned"
    /\ segment = [start_index |-> s, end_index |-> e]

(* C11 as stated: on every interval with zero net displacement and     *)
(* nonzero segment distances the mean of the segment paces differs     *)
(* from the total-time / total-distance pace.                           *)
MeanPaceDiffersFromTotalPace ==
    (pc = "pace_returned"
     /\ NoisyZeroDisplacement(segment.start_index, segment.end_index)) =>
        \/ average_pace.none
        \/ average_pace # TotalPace(segment.start_index, segment.end_index)

(* C11 amended: on every interval with zero net displacement and       *)
(* nonzero segment distances the function returns the arithmetic mean  *)
(* of the paces of the segments with positive distance and time; the   *)
(* mean equals the total-time / total-distance pace whenever all the   *)
(* segments have the same pace, and so differs from it only on         *)
(* intervals whose segments do not.                                     *)
MeanPaceDiffersOnlyOnUnevenSegments ==
    (pc = "pace_returned"
     /\ NoisyZeroDisplacement(segment.start_index, segment.end_index)) =>
        LET s == segment.start_index
            e == segment.end_index
        IN  /\ average_pace.none <=> (MovingSegments(s, e) = {})
            /\ (~average_pace.none) => average_pace = MeanSegmentPace(s, e)
            /\ UniformSegments(s, e) => average_pace = TotalPace(s, e)
            /\ (average_pace # TotalPace(s, e)) => ~UniformSegments(s, e)

(* A there-and-back interval with a standing segment, where the mean   *)
(* and the total pace differ.                                           *)
MeanPaceDiffersOnUnevenInterval ==
    /\ pc = "pace_returned"
    /\ NoisyZeroDisplacement(segment.start_index, segment.end_index)
    /\ MovingSegments(segment.start_index, segment.end_index)
           # segment.start_index .. (segment.end_index - 1)
    /\ ~average_pace.none
    /\ average_pace # TotalPace(segment.start_index, segment.end_index)

(* ------------------------------------------------------------------ *)
(* C13                                                                  *)
(* ------------------------------------------------------------------ *)

(* The Fixes from k on whose timestamp is within d seconds of Fix k. *)
FilterWindow(k, d) == {j \in k .. (N - 1) : P(j).t <= P(k).t + d}

FilterMax(k, d) ==
    SetMax({0} \cup {Abs(P(a).lat - P(b).lat) :
                       a \in FilterWindow(k, d), b \in FilterWindow(k, d)})

ScanWindows == {cfg.time_window, cfg.time_window_end}

(* C13: at every index the scan visits, and for both windows of the    *)
(* configuration, the forward scan selects exactly the Fixes j >= i    *)
(* with timestamp[j] <= timestamp[i] + d, the result is the largest    *)
(* pairwise distance among them, and it is 0 when Fix i is alone.       *)
WindowScanMatchesFilter ==
    (pc = "scan" /\ i < N) =>
        \A d \in ScanWindows :
            /\ i .. window_last(i, d) = FilterWindow(i, d)
            /\ calculate_max_distance_window(i, d) = FilterMax(i, d)
            /\ (FilterWindow(i, d) = {i} =>
                   calculate_max_distance_window(i, d) = 0)

(* A window that ends on a Fix exactly d seconds later, with a later   *)
(* Fix left out.                                                        *)
WindowEndsOnBoundaryFix ==
    /\ pc = "scan"
    /\ i < N
    /\ \E d \in ScanWindows :
           /\ window_last(i, d) > i
           /\ window_last(i, d) < N - 1
           /\ P(window_last(i, d)).t = P(i).t + d
           /\ calculate_max_distance_window(i, d) > 0

(* ------------------------------------------------------------------ *)
(* C14                                                                  *)
(* ------------------------------------------------------------------ *)

RECURSIVE SegmentTime(_, _)
SegmentTime(s, e) ==
    IF s >= e THEN 0
    ELSE (P(s + 1).t - P(s).t) + SegmentTime(s + 1, e)

PaceFrom(k, n) == IF k - n > 0 THEN k - n ELSE 0

PaceCounts == {cfg.nb_points_pace, cfg.nb_points_pace_end}

(* C14: at every index the scan visits, and for both point counts of   *)
(* the configuration, the pace over the last n points is "no data"     *)
(* exactly when start = max(0, i - n) is not below i (i = 0 or n = 0), *)
(* or the distance summed over the segments start..i is 0, or the time *)
(* summed over them is 0; otherwise it is (seconds / metres) * 1000 /  *)
(* 60 over those segments; and no Fix after index i is read.            *)
PaceOverLastPoints ==
    (pc = "scan" /\ i < N) =>
        \A n \in PaceCounts :
            LET start == PaceFrom(i, n)
                metres2 == SegmentSum(start, i)
                seconds == SegmentTime(start, i)
                pace == calculate_average_pace_last_points(i, n)
            IN  /\ pace.none <=>
                       (start >= i \/ metres2 = 0 \/ seconds = 0)
                /\ (start >= i) <=> (i = 0 \/ n = 0)
                /\ (~pace.none) =>
                       /\ pace.num = seconds * 1000 * HalfMetres(1)
                       /\ pace.den = metres2 * 60
                /\ \A k \in pace_reads(i, n) : k >= 0 /\ k <= i

(* A pace computed over fewer segments than the index allows. *)
PaceOverTrailingSegments ==
    /\ pc = "scan"
    /\ i < N
    /\ \E n \in PaceCounts :
           /\ PaceFrom(i, n) > 0
           /\ ~calculate_average_pace_last_points(i, n).none
           /\ SegmentSum(0, PaceFrom(i, n)) > 0

(* ------------------------------------------------------------------ *)
(* C15                                                                  *)
(* ------------------------------------------------------------------ *)

(* The Fixes up to k that are at most d seconds older than Fix k. *)
CountedFixes(k, d) == {j \in 0 .. k : P(j).t >= P(k).t - d}

Earliest(S) == CHOOSE m \in S : \A x \in S : m <= x

(* C15: at every index the scan visits, the density over the density   *)
(* window is "no data" when i = 0, when fewer than 2 Fixes are         *)
(* counted, or when the earliest counted Fix has the timestamp of Fix  *)
(* i; otherwise it is the number of counted Fixes (Fix i included)     *)
(* divided by the seconds between the earliest counted Fix and Fix i.   *)
DensityOverLastSeconds ==
    (pc = "scan" /\ i < N) =>
        LET d == cfg.density_window
            counted == CountedFixes(i, d)
            count == Cardinality(counted)
            elapsed == P(i).t - P(Earliest(counted)).t
            density == calculate_point_density_last_seconds(i, d)
        IN  /\ density.none <=> (i = 0 \/ count < 2 \/ elapsed = 0)
            /\ (~density.none) =>
                   /\ density.num = count
                   /\ density.den = elapsed
            /\ nb_window_points(i, d) = count

(* A density over a window whose oldest Fix is exactly d seconds old,  *)
(* with an older Fix left out.                                          *)
DensityWindowStartsOnBoundaryFix ==
    /\ pc = "scan"
    /\ i < N
    /\ ~calculate_point_density_last_seconds(i, cfg.density_window).none
    /\ Earliest(CountedFixes(i, cfg.density_window)) > 0
    /\ P(Earliest(CountedFixes(i, cfg.density_window))).t
           = P(i).t - cfg.density_window

(* ------------------------------------------------------------------ *)
(* C17                                                                  *)
(* ------------------------------------------------------------------ *)

PayloadSet ==
    /\ pause_start # NoFix
    /\ pause_start_index # None
    /\ pause_start_distance # None

PayloadCleared ==
    /\ pause_start = NoFix
    /\ pause_start_index = None
    /\ pause_start_distance = None

PayloadFollowsFlag ==
    /\ in_pause <=> PayloadSet
    /\ (~in_pause) <=> PayloadCleared
    /\ in_pause =>
          /\ pause_start_index >= 0
          /\ pause_start_index <= i
          /\ pause_start = P(pause_start_index)
          /\ pause_start_distance
                 = cumulative_distances[pause_start_index + 1]

IntervalEmitted == Len(pauses') = Len(pauses) + 1

(* C17 as stated: the start of the pause is recorded exactly while the *)
(* flag is set, with start index <= i and the cumulative distance of   *)
(* that index, and every step that emits an interval leaves the state  *)
(* not paused with the record cleared.                                  *)
PayloadClearedAfterEveryInterval ==
    [][/\ PayloadFollowsFlag'
       /\ IntervalEmitted => (~in_pause' /\ PayloadCleared')]_vars

(* C17 amended: the start of the pause is recorded exactly while the   *)
(* flag is set, with start index <= i and the cumulative distance of   *)
(* that index; a step of the scan that emits an interval leaves the    *)
(* state not paused with the record cleared, while the interval        *)
(* emitted after the scan for an open pause leaves the flag set and    *)
(* the record as it was.                                                *)
PayloadClearedAfterIntervalOfScan ==
    [][/\ PayloadFollowsFlag'
       /\ IntervalEmitted =>
             IF i < N
             THEN ~in_pause' /\ PayloadCleared'
             ELSE /\ pc' = "done"
                  /\ in_pause'
                  /\ PayloadSet'
                  /\ UNCHANGED <<pause_start, pause_start_index,
                                 pause_start_distance>>]_vars

(* The scan goes on, not paused, right after an interval was emitted. *)
StateResetAfterInterval ==
    /\ pc = "scan"
    /\ i < N
    /\ ~in_pause
    /\ PayloadCleared
    /\ Len(pauses) >= 1
    /\ pauses[Len(pauses)].end_index = i - 1

(* ------------------------------------------------------------------ *)
(* C18                                                                  *)
(* ------------------------------------------------------------------ *)

(* One step of the scan at index i: the index moves on by one; only    *)
(* the three start queries are evaluated when not paused and only the  *)
(* two end queries when paused; a pause opened at i is not closed at   *)
(* i and a pause closed at i is not reopened at i.                      *)
ScanStepRule ==
    /\ (pc = "cumulate" /\ pc' = "scan") => i' = 0
    /\ (pc = "scan" /\ i < N) =>
          /\ pc' = "scan"
          /\ i' = i + 1
          /\ queries' = queries + (IF in_pause THEN 2 ELSE 3)
          /\ (~in_pause) => pauses' = pauses
          /\ in_pause =>
                \/ (in_pause' /\ pauses' = pauses)
                \/ (~in_pause' /\ IntervalEmitted)
    /\ (pc = "scan" /\ ~(i < N)) => (pc' = "done" /\ i' = i)

(* C18: the call always returns; the scan visits the indices 0..n-1    *)
(* once each in increasing order, evaluates at each index only the     *)
(* criteria of its current state and makes at most one transition      *)
(* there.                                                               *)
ScanTerminatesInIndexOrder ==
    /\ <>(pc \in {"done", "rejected"})
    /\ [][ScanStepRule]_vars

(* A scan that made both kinds of test and returned. *)
ScanReturnedAfterBothTests ==
    /\ Returned
    /\ i = N
    /\ N >= 4
    /\ ~in_pause
    /\ Len(result.pauses) >= 1
    /\ queries < 3 * N
    /\ queries > 2 * N

(* ------------------------------------------------------------------ *)
(* C19                                                                  *)
(* ------------------------------------------------------------------ *)

IsPrefix(a, b) ==
    /\ Len(a) <= Len(b)
    /\ \A k \in 1 .. Len(a) : a[k] = b[k]

(* C19: no step changes the Fix sequence; no step of the scan changes  *)
(* the cumulative distances; the list of intervals only grows at its   *)
(* end, the intervals already in it keeping their place and fields;    *)
(* and the call returns the Fix sequence it was given.                  *)
ScanOnlyAppendsIntervals ==
    [][/\ points' = points
       /\ (pc = "scan" => cumulative_distances' = cumulative_distances)
       /\ IsPrefix(pauses, pauses')
       /\ Len(pauses') <= Len(pauses) + 1
       /\ (pc' \in {"done", "rejected"} => result'.points = points)
       /\ (pc' = "done" => result'.pauses = pauses')]_vars

(* The scan goes on with two intervals already emitted. *)
TwoIntervalsEmittedByScan ==
    /\ pc = "scan"
    /\ Len(pauses) >= 2
    /\ pauses[1].distance_meters > 0

(* ------------------------------------------------------------------ *)
(* C20                                                                  *)
(* ------------------------------------------------------------------ *)

PauseStartedAtFirstFix ==
    \/ (in_pause /\ pause_start_index = 0)
    \/ \E k \in 1 .. Len(pauses) : pauses[k].start_index = 0

(* C20: at index 0 the pace and the density are "no data", so once the *)
(* scan is past index 0 a pause has started there if and only if the   *)
(* displacement over the start window at index 0 is below distStart,   *)
(* whatever the track of two Fixes or more and the configuration.       *)
FirstFixStartsOnDistanceAlone ==
    (pc \in {"scan", "done"} /\ i >= 1) =>
        /\ calculate_average_pace_last_points(0, cfg.nb_points_pace).none
        /\ calculate_point_density_last_seconds(0, cfg.density_window).none
        /\ PauseStartedAtFirstFix <=>
               (calculate_max_distance_window(0, cfg.time_window)
                    < HalfMetres(cfg.threshold_start))

(* No pause at index 0 because the displacement there equals distStart. *)
FirstFixAtStartDistance ==
    /\ pc = "scan"
    /\ i = 1
    /\ ~in_pause
    /\ calculate_max_distance_window(0, cfg.time_window)
           = HalfMetres(cfg.threshold_start)

(* ------------------------------------------------------------------ *)
(* C21                                                                  *)
(* ------------------------------------------------------------------ *)

OneHertz == \A k \in 1 .. (N - 1) : points[k + 1].t = points[k].t + 1

(* C21: on a track sampled at 1 Hz the density over the density window *)
(* is a value above 1 at every index i >= 1 the scan visits, so with   *)
(* densityThresh = 1 the start density criterion fails there, no pause *)
(* starts there, and every pause of the track starts at index 0.        *)
OneHertzPausesStartAtFirstFix ==
    /\ OneHertz
    /\ (pc = "scan" /\ i < N /\ i >= 1) =>
          LET density ==
                  calculate_point_density_last_seconds(i, cfg.density_window)
          IN  /\ ~density.none
              /\ density.num > density.den
              /\ ~(density.num < cfg.density_threshold * density.den)
              /\ ~StartRuleHolds(i)
    /\ in_pause => pause_start_index = 0
    /\ \A k \in 1 .. Len(pauses) : pauses[k].start_index = 0

(* The runner has stopped: displacement and pace satisfy the start     *)
(* rule at an index more than a density window into the track, and     *)
(* the density is what keeps the pause from starting.                   *)
OneHertzStopBlockedByDensity ==
    /\ pc = "scan"
    /\ i < N
    /\ i > cfg.density_window
    /\ ~in_pause
    /\ calculate_max_distance_window(i, cfg.time_window)
           < HalfMetres(cfg.threshold_start)
    /\ LET pace == calculate_average_pace_last_points(i, cfg.nb_points_pace)
       IN  pace.none \/ pace.num > cfg.pace_threshold * pace.den
    /\ ~calculate_point_density_last_seconds(i, cfg.density_window).none

(* ------------------------------------------------------------------ *)
(* C22                                                                  *)
(* ------------------------------------------------------------------ *)

====
